---- MODULE Spec2Model ----
(***************************************************************************)
(* Policy-execution engine of the background job scheduler                 *)
(* (tsl/src/bgw_policy/job.c): the dispatcher, the license gate, the three *)
(* policy executors with their transaction boundaries, the chunk selection *)
(* heuristic, the fast-restart signal and the schedule mutation API.       *)
(*                                                                         *)
(* The catalog is modelled as committed tables plus, per backend, the      *)
(* writes of its open transaction: a commit publishes them, an error or a  *)
(* rollback discards them.  One hypertable (id 1) with one open dimension  *)
(* and one chunk per dimension slice is modelled.                          *)
(***************************************************************************)
EXTENDS Integers, Sequences, FiniteSets, TLC

\* ------------------------------------------------------------------ bounds
MaxChunks == 5        \* chunk ids ever allocated (ids are serial, never reused)
MaxAlters == 1        \* calls of bgw_policy_alter_job_schedule
MaxFaults == 1        \* failures of the reorder primitive, rollbacks, catalog and license changes

\* ------------------------------------------------------- program constants
REORDER_SKIP_RECENT_DIM_SLICES_N == 3

JOB_TYPE_REORDER == "reorder"
JOB_TYPE_DROP_CHUNKS == "drop_chunks"
JOB_TYPE_CONTINUOUS_AGGREGATE == "continuous_aggregate"
JOB_TYPE_UNKNOWN == "unknown"

JobIds == 1 .. 4
AlterJobIds == JobIds \cup {404}
Workers == {"w1", "w2"}
ChunkIds == 1 .. MaxChunks
RangeStarts == 1 .. 6
FieldVals == {1, 2}

\* NULL pointer / "no row", invalid chunk id, DT_NOBEGIN
NULL == 0
InvalidChunk == -1
DT_NOBEGIN == 0

\* error kinds
ERR_LICENSE == "license_not_enterprise"
ERRCODE_TS_INTERNAL_ERROR == "ts_internal_error"
ERRCODE_TS_HYPERTABLE_NOT_EXIST == "ts_hypertable_not_exist"
ERRCODE_INTERNAL_ERROR == "internal_error"
ERRCODE_UNDEFINED_OBJECT == "undefined_object"
ERRCODE_INSUFFICIENT_PRIVILEGE == "insufficient_privilege"
ERRCODE_FEATURE_NOT_SUPPORTED == "feature_not_supported"
ERR_PRIMITIVE == "primitive_failed"
SIGSEGV == "sigsegv"

VARIABLES
    license,        \* enterprise entitlement active
    bgw_job,        \* job table: id -> [bgw_type, schedule_interval, max_runtime, max_retries, retry_period]
    job_stat,       \* id -> [last_start, next_start]
    reorder_args,   \* bgw_policy_reorder: job id -> hypertable id or NULL
    drop_args,      \* bgw_policy_drop_chunks: job id -> hypertable id or NULL
    cagg_job,       \* continuous aggregate of a job: job id -> materialization id or -1
    hypertable,     \* the hypertable (id 1) exists
    chunks,         \* chunk id -> range_start of its slice in the open dimension
    next_chunk_id,  \* serial
    chunk_stats,    \* bgw_policy_chunk_stats: set of <<job id, chunk id>>
    reorder_calls,  \* history: <<job id, chunk id>> -> [calls: calls of the reorder primitive,
                    \*          lost: those whose run failed or was rolled back]
    faults,         \* history: failures and rollbacks injected so far
    backends,       \* backends (workers) of this run
    pc,             \* per backend: position
    frame,          \* per backend: [entry, job, fast_continue, started, chunk_id, finished]
    tx,             \* per backend: [open, snapshots, stats, next, dropped]
    ev,             \* per backend: events of the current invocation, in order
    result,         \* per backend: outcome of the current invocation
    entry,          \* per backend: state observed when the invocation was entered
    alter_ret       \* outcome of the last bgw_policy_alter_job_schedule call

catalog == <<license, bgw_job, reorder_args, drop_args, cagg_job, hypertable,
             chunks, next_chunk_id>>
vars == <<license, bgw_job, job_stat, reorder_args, drop_args, cagg_job, hypertable,
          chunks, next_chunk_id, chunk_stats, reorder_calls, faults, backends,
          pc, frame, tx, ev, result, entry, alter_ret>>

InitJobType ==
    (1 :> JOB_TYPE_REORDER) @@ (2 :> JOB_TYPE_DROP_CHUNKS)
    @@ (3 :> JOB_TYPE_CONTINUOUS_AGGREGATE) @@ (4 :> JOB_TYPE_UNKNOWN)

NoFrame ==
    [entry |-> "none", job |-> NULL, fast_continue |-> FALSE, started |-> FALSE,
     chunk_id |-> InvalidChunk, finished |-> FALSE]
NoTx == [open |-> FALSE, snapshots |-> 0, stats |-> {}, next |-> {}, dropped |-> {}]
NoEntry == [open |-> FALSE, snapshots |-> 0]
NoRet == [calls |-> 0, outcome |-> "none", job_id |-> NULL, row |-> <<>>, reached |-> <<>>]

\* ------------------------------------------------- what a backend can see
\* The committed catalog plus the writes of the backend's own transaction.
VisStats(w) == chunk_stats \cup tx[w].stats
VisChunks(w) == DOMAIN chunks \ tx[w].dropped
VisSlices(w) == {chunks[c] : c \in VisChunks(w)}


\* ----------------------------------------------------- selection heuristic
\* The slice that has n newer slices in the dimension (its range_start), NULL
\* when the dimension has fewer than n+1 slices.
ts_dimension_slice_nth_latest_slice(slices, n) ==
    IF Cardinality(slices) < n + 1
    THEN NULL
    ELSE CHOOSE s \in slices : Cardinality({t \in slices : t > s}) = n

\* The chunk with the smallest range_start among the chunks whose range_start
\* is <= threshold and that have no chunk_stats row for job_id; -1 if none.
ts_dimension_slice_oldest_chunk_without_executed_job(job_id, chs, stats, threshold) ==
    LET cand == {c \in DOMAIN chs : chs[c] <= threshold /\ <<job_id, c>> \notin stats}
    IN  IF cand = {}
        THEN InvalidChunk
        ELSE CHOOSE c \in cand : \A d \in cand : chs[c] <= chs[d]

\* As get_chunk_id_to_reorder, but skipping one slice fewer
get_chunk_id_to_reorder_off_by_one(job_id, chs, stats) ==
    LET nth_dimension ==
            ts_dimension_slice_nth_latest_slice({chs[c] : c \in DOMAIN chs},
                                                REORDER_SKIP_RECENT_DIM_SLICES_N - 1)
    IN  IF nth_dimension = NULL
        THEN InvalidChunk
        ELSE ts_dimension_slice_oldest_chunk_without_executed_job(job_id, chs, stats,
                                                                  nth_dimension)

\* As get_chunk_id_to_reorder, but with BTLessStrategyNumber: the chunk of
\* the nth latest slice itself is left out
get_chunk_id_to_reorder_strictly_less(job_id, chs, stats) ==
    LET nth_dimension ==
            ts_dimension_slice_nth_latest_slice({chs[c] : c \in DOMAIN chs},
                                                REORDER_SKIP_RECENT_DIM_SLICES_N)
    IN  IF nth_dimension = NULL
        THEN InvalidChunk
        ELSE ts_dimension_slice_oldest_chunk_without_executed_job(job_id, chs, stats,
                                                                  nth_dimension - 1)

\* As get_chunk_id_to_reorder, but a row of any job counts as a row of job_id
get_chunk_id_to_reorder_any_job(job_id, chs, stats) ==
    LET nth_dimension ==
            ts_dimension_slice_nth_latest_slice({chs[c] : c \in DOMAIN chs},
                                                REORDER_SKIP_RECENT_DIM_SLICES_N)
    IN  IF nth_dimension = NULL
        THEN InvalidChunk
        ELSE ts_dimension_slice_oldest_chunk_without_executed_job(
                 job_id, chs, {<<job_id, p[2]>> : p \in stats}, nth_dimension)

\* chs: the visible chunks (id -> range_start), stats: the visible chunk_stats
get_chunk_id_to_reorder(job_id, chs, stats) ==
    LET nth_dimension ==
            ts_dimension_slice_nth_latest_slice({chs[c] : c \in DOMAIN chs},
                                                REORDER_SKIP_RECENT_DIM_SLICES_N)
    IN  IF nth_dimension = NULL
        THEN InvalidChunk
        ELSE ts_dimension_slice_oldest_chunk_without_executed_job(job_id, chs, stats,
                                                                  nth_dimension)

ChunksOf(w) == [c \in VisChunks(w) |-> chunks[c]]

\* ------------------------------------------------------------ transactions
StartTransactionCommand(t) == [t EXCEPT !.open = TRUE]
PushActiveSnapshot(t) == [t EXCEPT !.snapshots = @ + 1]
PopActiveSnapshot(t) == [t EXCEPT !.snapshots = @ - 1]

\* The committed tables after the transaction t commits
CommittedStats(t) == chunk_stats \cup t.stats
CommittedJobStat(t) ==
    [j \in JobIds |->
        IF \E p \in t.next : p[1] = j
        THEN [job_stat[j] EXCEPT !.next_start = (CHOOSE p \in t.next : p[1] = j)[2]]
        ELSE job_stat[j]]
CommittedChunks(t) == [c \in DOMAIN chunks \ t.dropped |-> chunks[c]]

\* CommitTransactionCommand: publish the writes of w's transaction t
CommitTransactionCommand(w, t) ==
    /\ chunk_stats' = CommittedStats(t)
    /\ job_stat' = CommittedJobStat(t)
    /\ chunks' = CommittedChunks(t)
    /\ tx' = [tx EXCEPT ![w] = NoTx]

\* ereport(ERROR): the invocation ends, the transaction is aborted and its
\* writes are discarded
Raise(w, kind) ==
    /\ pc' = [pc EXCEPT ![w] = "done"]
    /\ result' = [result EXCEPT ![w] = kind]
    /\ tx' = [tx EXCEPT ![w] = NoTx]
    /\ UNCHANGED <<chunk_stats, job_stat, chunks>>

\* As enable_fast_restart, but one tick after last_start
enable_fast_restart_later(t, job_id) ==
    [t EXCEPT !.next = {p \in @ : p[1] # job_id}
                        \cup {<<job_id, job_stat[job_id].last_start + 1>>}]

\* ------------------------------------------------------ fast-restart signal
enable_fast_restart(t, job_id) ==
    [t EXCEPT !.next = {p \in @ : p[1] # job_id}
                        \cup {<<job_id, job_stat[job_id].last_start>>}]

Observed(w, j, in_xact) ==
    [open |-> in_xact, snapshots |-> 0]

\* ------------------------------------------------------- reorder executor
\* execute_reorder_policy called directly (it is exported; fast_continue is
\* the caller's choice), inside the caller's transaction or outside any.
CallReorder(w, j, fc, in_xact) ==
    /\ pc[w] = "idle"
    /\ pc' = [pc EXCEPT ![w] = "reorder_enter"]
    /\ frame' = [frame EXCEPT ![w] = [NoFrame EXCEPT !.entry = "reorder", !.job = j,
                                                     !.fast_continue = fc]]
    /\ tx' = [tx EXCEPT ![w] = [NoTx EXCEPT !.open = in_xact]]
    /\ entry' = [entry EXCEPT ![w] = Observed(w, j, in_xact)]
    /\ ev' = [ev EXCEPT ![w] = <<>>]
    /\ result' = [result EXCEPT ![w] = "none"]
    /\ UNCHANGED <<catalog, job_stat, chunk_stats, reorder_calls, faults, backends,
                   alter_ret>>

\* lines 90-94
ReorderEnter(w) ==
    /\ pc[w] = "reorder_enter"
    /\ pc' = [pc EXCEPT ![w] = "reorder_select"]
    /\ IF ~tx[w].open
       THEN /\ frame' = [frame EXCEPT ![w].started = TRUE]
            /\ tx' = [tx EXCEPT ![w] = StartTransactionCommand(@)]
            /\ ev' = [ev EXCEPT ![w] = Append(@, "start")]
       ELSE UNCHANGED <<frame, tx, ev>>
    /\ UNCHANGED <<catalog, job_stat, chunk_stats, reorder_calls, faults, backends,
                   result, entry, alter_ret>>

\* As ReorderSelect, but leaving through the commit when the policy row is missing
ReorderSelect_commit_on_error(w) ==
    /\ pc[w] = "reorder_select"
    /\ LET job_id == frame[w].job
           args == reorder_args[job_id]
           chunk_id == get_chunk_id_to_reorder(job_id, ChunksOf(w), VisStats(w))
       IN  IF args = NULL
           THEN /\ pc' = [pc EXCEPT ![w] = "done"]
                /\ result' = [result EXCEPT ![w] = ERRCODE_TS_INTERNAL_ERROR]
                /\ CommitTransactionCommand(w, tx[w])
                /\ ev' = [ev EXCEPT ![w] = Append(@, "commit")]
                /\ UNCHANGED frame
           ELSE IF ~hypertable
           THEN Raise(w, SIGSEGV) /\ UNCHANGED <<frame, ev>>
           ELSE /\ frame' = [frame EXCEPT ![w].chunk_id = chunk_id]
                /\ pc' = [pc EXCEPT ![w] =
                            IF chunk_id = InvalidChunk THEN "reorder_commit"
                                                       ELSE "reorder_call"]
                /\ UNCHANGED <<tx, result, chunk_stats, job_stat, chunks, ev>>
    /\ UNCHANGED <<license, bgw_job, reorder_args, drop_args, cagg_job, hypertable,
                   next_chunk_id, reorder_calls, faults, backends, entry, alter_ret>>

\* lines 96-117
ReorderSelect(w) ==
    /\ pc[w] = "reorder_select"
    /\ LET job_id == frame[w].job
           args == reorder_args[job_id]
           chunk_id == get_chunk_id_to_reorder(job_id, ChunksOf(w), VisStats(w))
       IN  IF args = NULL
           THEN Raise(w, ERRCODE_TS_INTERNAL_ERROR) /\ UNCHANGED frame
           ELSE IF ~hypertable
           THEN Raise(w, SIGSEGV) /\ UNCHANGED frame
           ELSE /\ frame' = [frame EXCEPT ![w].chunk_id = chunk_id]
                /\ pc' = [pc EXCEPT ![w] =
                            IF chunk_id = InvalidChunk THEN "reorder_commit"
                                                       ELSE "reorder_call"]
                /\ UNCHANGED <<tx, result, chunk_stats, job_stat, chunks>>
    /\ UNCHANGED <<license, bgw_job, reorder_args, drop_args, cagg_job, hypertable,
                   next_chunk_id, reorder_calls, faults, backends, ev, entry, alter_ret>>

\* lines 119-136: the reorder primitive is called on the selected chunk and
\* returns, or raises an error
ReorderCall(w) ==
    /\ pc[w] = "reorder_call"
    /\ LET job_id == frame[w].job
           chunk_id == frame[w].chunk_id
       IN  IF chunk_id \notin VisChunks(w)
           THEN /\ Raise(w, SIGSEGV)
                /\ UNCHANGED <<reorder_calls, faults, ev>>
           ELSE /\ ev' = [ev EXCEPT ![w] = Append(@, "reorder")]
                /\ \/ /\ pc' = [pc EXCEPT ![w] = "reorder_record"]
                      /\ reorder_calls' = [reorder_calls EXCEPT
                                             ![<<job_id, chunk_id>>].calls = @ + 1]
                      /\ UNCHANGED <<faults, tx, result, chunk_stats, job_stat, chunks>>
                   \/ /\ faults < MaxFaults
                      /\ faults' = faults + 1
                      /\ reorder_calls' = [reorder_calls EXCEPT
                                             ![<<job_id, chunk_id>>].calls = @ + 1,
                                             ![<<job_id, chunk_id>>].lost = @ + 1]
                      /\ Raise(w, ERR_PRIMITIVE)
    /\ UNCHANGED <<license, bgw_job, reorder_args, drop_args, cagg_job, hypertable,
                   next_chunk_id, backends, frame, entry, alter_ret>>

\* As ReorderRecord, but without the chunk_stats row
ReorderRecord_skip(w) ==
    /\ pc[w] = "reorder_record"
    /\ pc' = [pc EXCEPT ![w] = "reorder_fast"]
    /\ UNCHANGED <<catalog, job_stat, chunk_stats, reorder_calls, faults, backends,
                   frame, result, entry, alter_ret, tx, ev>>

\* As ReorderRecord, but with a row for every chunk of the table
ReorderRecord_every_chunk(w) ==
    /\ pc[w] = "reorder_record"
    /\ pc' = [pc EXCEPT ![w] = "reorder_fast"]
    /\ tx' = [tx EXCEPT ![w].stats = @ \cup {<<frame[w].job, c>> : c \in VisChunks(w)}]
    /\ ev' = [ev EXCEPT ![w] = Append(@, "record")]
    /\ UNCHANGED <<catalog, job_stat, chunk_stats, reorder_calls, faults, backends,
                   frame, result, entry, alter_ret>>

\* lines 138-141
ReorderRecord(w) ==
    /\ pc[w] = "reorder_record"
    /\ pc' = [pc EXCEPT ![w] = "reorder_fast"]
    /\ tx' = [tx EXCEPT ![w].stats = @ \cup {<<frame[w].job, frame[w].chunk_id>>}]
    /\ ev' = [ev EXCEPT ![w] = Append(@, "record")]
    /\ UNCHANGED <<catalog, job_stat, chunk_stats, reorder_calls, faults, backends,
                   frame, result, entry, alter_ret>>

\* As ReorderFast, but without the second call of the heuristic
ReorderFast_unconditional(w) ==
    /\ pc[w] = "reorder_fast"
    /\ pc' = [pc EXCEPT ![w] = "reorder_commit"]
    /\ LET left == get_chunk_id_to_reorder(frame[w].job, ChunksOf(w), VisStats(w))
                       # InvalidChunk
           seen == IF left THEN <<"eligible_left">> ELSE <<>>
       IN  IF frame[w].fast_continue
           THEN /\ tx' = [tx EXCEPT ![w] = enable_fast_restart(@, frame[w].job)]
                /\ ev' = [ev EXCEPT ![w] = @ \o seen \o <<"set_next">>]
           ELSE /\ ev' = [ev EXCEPT ![w] = @ \o seen]
                /\ UNCHANGED tx
    /\ UNCHANGED <<catalog, job_stat, chunk_stats, reorder_calls, faults, backends,
                   frame, result, entry, alter_ret>>

\* As ReorderFast, but the second call of the heuristic does not see the row
\* that the run has just written
ReorderFast_stale(w) ==
    /\ pc[w] = "reorder_fast"
    /\ pc' = [pc EXCEPT ![w] = "reorder_commit"]
    /\ LET left == get_chunk_id_to_reorder(frame[w].job, ChunksOf(w), chunk_stats)
                       # InvalidChunk
           seen == IF left THEN <<"eligible_left">> ELSE <<>>
       IN  IF frame[w].fast_continue /\ left
           THEN /\ tx' = [tx EXCEPT ![w] = enable_fast_restart(@, frame[w].job)]
                /\ ev' = [ev EXCEPT ![w] = @ \o seen \o <<"set_next">>]
           ELSE /\ ev' = [ev EXCEPT ![w] = @ \o seen]
                /\ UNCHANGED tx
    /\ UNCHANGED <<catalog, job_stat, chunk_stats, reorder_calls, faults, backends,
                   frame, result, entry, alter_ret>>

\* lines 143-144.  The event "eligible_left" observes that the run leaves a
\* further eligible chunk, whether or not the code asks.
ReorderFast(w) ==
    /\ pc[w] = "reorder_fast"
    /\ pc' = [pc EXCEPT ![w] = "reorder_commit"]
    /\ LET left == get_chunk_id_to_reorder(frame[w].job, ChunksOf(w), VisStats(w))
                       # InvalidChunk
           seen == IF left THEN <<"eligible_left">> ELSE <<>>
       IN  IF frame[w].fast_continue /\ left
           THEN /\ tx' = [tx EXCEPT ![w] = enable_fast_restart(@, frame[w].job)]
                /\ ev' = [ev EXCEPT ![w] = @ \o seen \o <<"set_next">>]
           ELSE /\ ev' = [ev EXCEPT ![w] = @ \o seen]
                /\ UNCHANGED tx
    /\ UNCHANGED <<catalog, job_stat, chunk_stats, reorder_calls, faults, backends,
                   frame, result, entry, alter_ret>>

\* As ReorderCommit, but committing whether or not the executor started the transaction
ReorderCommit_always(w) ==
    /\ pc[w] = "reorder_commit"
    /\ pc' = [pc EXCEPT ![w] = "done"]
    /\ result' = [result EXCEPT ![w] = "true"]
    /\ CommitTransactionCommand(w, tx[w])
    /\ ev' = [ev EXCEPT ![w] = Append(@, "commit")]
    /\ UNCHANGED <<license, bgw_job, reorder_args, drop_args, cagg_job, hypertable,
                   next_chunk_id, reorder_calls, faults, backends, frame, entry, alter_ret>>

\* As ReorderCommit, but a run that found no chunk returns false
ReorderCommit_false_on_noop(w) ==
    /\ pc[w] = "reorder_commit"
    /\ pc' = [pc EXCEPT ![w] = "done"]
    /\ result' = [result EXCEPT ![w] =
                    IF frame[w].chunk_id = InvalidChunk THEN "false" ELSE "true"]
    /\ IF frame[w].started
       THEN /\ CommitTransactionCommand(w, tx[w])
            /\ ev' = [ev EXCEPT ![w] = Append(@, "commit")]
       ELSE UNCHANGED <<tx, ev, chunk_stats, job_stat, chunks>>
    /\ UNCHANGED <<license, bgw_job, reorder_args, drop_args, cagg_job, hypertable,
                   next_chunk_id, reorder_calls, faults, backends, frame, entry, alter_ret>>

\* lines 146-150
ReorderCommit(w) ==
    /\ pc[w] = "reorder_commit"
    /\ pc' = [pc EXCEPT ![w] = "done"]
    /\ result' = [result EXCEPT ![w] = "true"]
    /\ IF frame[w].started
       THEN /\ CommitTransactionCommand(w, tx[w])
            /\ ev' = [ev EXCEPT ![w] = Append(@, "commit")]
       ELSE UNCHANGED <<tx, ev, chunk_stats, job_stat, chunks>>
    /\ UNCHANGED <<license, bgw_job, reorder_args, drop_args, cagg_job, hypertable,
                   next_chunk_id, reorder_calls, faults, backends, frame, entry, alter_ret>>

\* --------------------------------------------------- drop_chunks executor
\* execute_drop_chunks_policy called directly (it is exported)
CallDropChunks(w, j, in_xact) ==
    /\ pc[w] = "idle"
    /\ pc' = [pc EXCEPT ![w] = "drop_enter"]
    /\ frame' = [frame EXCEPT ![w] = [NoFrame EXCEPT !.entry = "drop_chunks", !.job = j]]
    /\ tx' = [tx EXCEPT ![w] = [NoTx EXCEPT !.open = in_xact]]
    /\ entry' = [entry EXCEPT ![w] = Observed(w, j, in_xact)]
    /\ ev' = [ev EXCEPT ![w] = <<>>]
    /\ result' = [result EXCEPT ![w] = "none"]
    /\ UNCHANGED <<catalog, job_stat, chunk_stats, reorder_calls, faults, backends,
                   alter_ret>>

\* As DropEnter, but the snapshot is pushed whether or not the executor
\* started the transaction
DropEnter_push_always(w) ==
    /\ pc[w] = "drop_enter"
    /\ pc' = [pc EXCEPT ![w] = "drop_chunks"]
    /\ IF ~tx[w].open
       THEN /\ frame' = [frame EXCEPT ![w].started = TRUE]
            /\ tx' = [tx EXCEPT ![w] = PushActiveSnapshot(StartTransactionCommand(@))]
            /\ ev' = [ev EXCEPT ![w] = @ \o <<"start", "push">>]
       ELSE /\ tx' = [tx EXCEPT ![w] = PushActiveSnapshot(@)]
            /\ ev' = [ev EXCEPT ![w] = Append(@, "push")]
            /\ UNCHANGED frame
    /\ UNCHANGED <<catalog, job_stat, chunk_stats, reorder_calls, faults, backends,
                   result, entry, alter_ret>>

\* lines 163-168
DropEnter(w) ==
    /\ pc[w] = "drop_enter"
    /\ pc' = [pc EXCEPT ![w] = "drop_chunks"]
    /\ IF ~tx[w].open
       THEN /\ frame' = [frame EXCEPT ![w].started = TRUE]
            /\ tx' = [tx EXCEPT ![w] = PushActiveSnapshot(StartTransactionCommand(@))]
            /\ ev' = [ev EXCEPT ![w] = @ \o <<"start", "push">>]
       ELSE UNCHANGED <<frame, tx, ev>>
    /\ UNCHANGED <<catalog, job_stat, chunk_stats, reorder_calls, faults, backends,
                   result, entry, alter_ret>>

\* ts_chunk_do_drop_chunks: the chunks of the table older than the cutoff
ts_chunk_do_drop_chunks(chs, cutoff) == {c \in DOMAIN chs : chs[c] < cutoff}

\* As DropChunks, but without the check of lines 183-188
DropChunks_no_check(w) ==
    /\ pc[w] = "drop_chunks"
    /\ LET args == drop_args[frame[w].job]
       IN  IF args = NULL
           THEN Raise(w, ERRCODE_TS_INTERNAL_ERROR) /\ UNCHANGED ev
           ELSE /\ ev' = [ev EXCEPT ![w] = Append(@, "drop")]
                /\ \/ \E cutoff \in RangeStarts :
                         /\ tx' = [tx EXCEPT ![w].dropped =
                                      @ \cup ts_chunk_do_drop_chunks(ChunksOf(w), cutoff)]
                         /\ pc' = [pc EXCEPT ![w] = "drop_commit"]
                         /\ UNCHANGED <<result, chunk_stats, job_stat, chunks>>
                   \/ Raise(w, ERR_PRIMITIVE)
    /\ UNCHANGED <<license, bgw_job, reorder_args, drop_args, cagg_job, hypertable,
                   next_chunk_id, reorder_calls, faults, backends, frame, entry, alter_ret>>

\* lines 170-201: the cutoff is now minus older_than; the drop primitive
\* returns or raises an error
DropChunks(w) ==
    /\ pc[w] = "drop_chunks"
    /\ LET args == drop_args[frame[w].job]
       IN  IF args = NULL
           THEN Raise(w, ERRCODE_TS_INTERNAL_ERROR) /\ UNCHANGED ev
           ELSE IF ~hypertable
           THEN Raise(w, ERRCODE_TS_HYPERTABLE_NOT_EXIST) /\ UNCHANGED ev
           ELSE /\ ev' = [ev EXCEPT ![w] = Append(@, "drop")]
                /\ \/ \E cutoff \in RangeStarts :
                         /\ tx' = [tx EXCEPT ![w].dropped =
                                      @ \cup ts_chunk_do_drop_chunks(ChunksOf(w), cutoff)]
                         /\ pc' = [pc EXCEPT ![w] = "drop_commit"]
                         /\ UNCHANGED <<result, chunk_stats, job_stat, chunks>>
                   \/ Raise(w, ERR_PRIMITIVE)
    /\ UNCHANGED <<license, bgw_job, reorder_args, drop_args, cagg_job, hypertable,
                   next_chunk_id, reorder_calls, faults, backends, frame, entry, alter_ret>>

\* lines 203-208
DropCommit(w) ==
    /\ pc[w] = "drop_commit"
    /\ pc' = [pc EXCEPT ![w] = "done"]
    /\ result' = [result EXCEPT ![w] = "true"]
    /\ IF frame[w].started
       THEN /\ CommitTransactionCommand(w, PopActiveSnapshot(tx[w]))
            /\ ev' = [ev EXCEPT ![w] = @ \o <<"pop", "commit">>]
       ELSE UNCHANGED <<tx, ev, chunk_stats, job_stat, chunks>>
    /\ UNCHANGED <<license, bgw_job, reorder_args, drop_args, cagg_job, hypertable,
                   next_chunk_id, reorder_calls, faults, backends, frame, entry, alter_ret>>

\* --------------------------------------------------- materialize executor
\* lines 218-222
MaterializeEnter(w) ==
    /\ pc[w] = "materialize_enter"
    /\ pc' = [pc EXCEPT ![w] = "materialize_find"]
    /\ IF ~tx[w].open
       THEN /\ frame' = [frame EXCEPT ![w].started = TRUE]
            /\ tx' = [tx EXCEPT ![w] = StartTransactionCommand(@)]
            /\ ev' = [ev EXCEPT ![w] = Append(@, "start")]
       ELSE UNCHANGED <<frame, tx, ev>>
    /\ UNCHANGED <<catalog, job_stat, chunk_stats, reorder_calls, faults, backends,
                   result, entry, alter_ret>>

\* As MaterializeFind, but without the commit of line 228
MaterializeFind_no_commit(w) ==
    /\ pc[w] = "materialize_find"
    /\ LET materialization_id == cagg_job[frame[w].job]
       IN  IF materialization_id < 0
           THEN Raise(w, ERRCODE_INTERNAL_ERROR)
           ELSE /\ pc' = [pc EXCEPT ![w] = "materialize_engine"]
                /\ UNCHANGED <<tx, result, chunk_stats, job_stat, chunks>>
    /\ UNCHANGED <<license, bgw_job, reorder_args, drop_args, cagg_job, hypertable,
                   next_chunk_id, reorder_calls, faults, backends, frame, entry, alter_ret,
                   ev>>

\* lines 224-228
MaterializeFind(w) ==
    /\ pc[w] = "materialize_find"
    /\ LET materialization_id == cagg_job[frame[w].job]
       IN  IF materialization_id < 0
           THEN Raise(w, ERRCODE_INTERNAL_ERROR) /\ UNCHANGED ev
           ELSE /\ CommitTransactionCommand(w, tx[w])
                /\ ev' = [ev EXCEPT ![w] = Append(@, "commit")]
                /\ pc' = [pc EXCEPT ![w] = "materialize_engine"]
                /\ UNCHANGED result
    /\ UNCHANGED <<license, bgw_job, reorder_args, drop_args, cagg_job, hypertable,
                   next_chunk_id, reorder_calls, faults, backends, frame, entry, alter_ret>>

\* lines 230-231: continuous_agg_materialize reports whether it finished all
\* the pending work, or raises an error.  The event records whether a
\* transaction was open when the engine was called.
MaterializeEngine(w) ==
    /\ pc[w] = "materialize_engine"
    /\ ev' = [ev EXCEPT ![w] =
                Append(@, IF tx[w].open THEN "materialize_in_xact" ELSE "materialize")]
    /\ \/ \E all_done \in BOOLEAN :
             /\ frame' = [frame EXCEPT ![w].finished = all_done]
             /\ pc' = [pc EXCEPT ![w] = "materialize_restart"]
             /\ UNCHANGED <<tx, result, chunk_stats, job_stat, chunks>>
       \/ Raise(w, ERR_PRIMITIVE) /\ UNCHANGED frame
    /\ UNCHANGED <<license, bgw_job, reorder_args, drop_args, cagg_job, hypertable,
                   next_chunk_id, reorder_calls, faults, backends, entry, alter_ret>>

\* As MaterializeRestart, but with the test of line 235 inverted
MaterializeRestart_inverted(w) ==
    /\ pc[w] = "materialize_restart"
    /\ pc' = [pc EXCEPT ![w] = "materialize_exit"]
    /\ IF frame[w].finished
       THEN /\ tx' = [tx EXCEPT ![w] =
                        enable_fast_restart(StartTransactionCommand(@), frame[w].job)]
            /\ ev' = [ev EXCEPT ![w] = @ \o <<"start", "set_next">>]
       ELSE /\ tx' = [tx EXCEPT ![w] = StartTransactionCommand(@)]
            /\ ev' = [ev EXCEPT ![w] = Append(@, "start")]
    /\ UNCHANGED <<catalog, job_stat, chunk_stats, reorder_calls, faults, backends,
                   frame, result, entry, alter_ret>>

\* lines 233-236
MaterializeRestart(w) ==
    /\ pc[w] = "materialize_restart"
    /\ pc' = [pc EXCEPT ![w] = "materialize_exit"]
    /\ IF ~frame[w].finished
       THEN /\ tx' = [tx EXCEPT ![w] =
                        enable_fast_restart(StartTransactionCommand(@), frame[w].job)]
            /\ ev' = [ev EXCEPT ![w] = @ \o <<"start", "set_next">>]
       ELSE /\ tx' = [tx EXCEPT ![w] = StartTransactionCommand(@)]
            /\ ev' = [ev EXCEPT ![w] = Append(@, "start")]
    /\ UNCHANGED <<catalog, job_stat, chunk_stats, reorder_calls, faults, backends,
                   frame, result, entry, alter_ret>>

\* lines 238-241
MaterializeExit(w) ==
    /\ pc[w] = "materialize_exit"
    /\ pc' = [pc EXCEPT ![w] = "done"]
    /\ result' = [result EXCEPT ![w] = "true"]
    /\ IF frame[w].started
       THEN /\ CommitTransactionCommand(w, tx[w])
            /\ ev' = [ev EXCEPT ![w] = Append(@, "commit")]
       ELSE UNCHANGED <<tx, ev, chunk_stats, job_stat, chunks>>
    /\ UNCHANGED <<license, bgw_job, reorder_args, drop_args, cagg_job, hypertable,
                   next_chunk_id, reorder_calls, faults, backends, frame, entry, alter_ret>>

\* ------------------------------------------------ license gate, dispatcher
license_enterprise_enabled == license

\* As bgw_policy_job_requires_enterprise_license, but a drop_chunks job needs no license
requires_enterprise_license_drop_free(bgw_type) ==
    CASE bgw_type = JOB_TYPE_REORDER -> "true"
      [] bgw_type = JOB_TYPE_DROP_CHUNKS -> "false"
      [] bgw_type = JOB_TYPE_CONTINUOUS_AGGREGATE -> "false"
      [] OTHER -> "error"

\* lines 244-263: "true", "false", or "error" for the default case
bgw_policy_job_requires_enterprise_license(bgw_type) ==
    CASE bgw_type = JOB_TYPE_REORDER -> "true"
      [] bgw_type = JOB_TYPE_DROP_CHUNKS -> "true"
      [] bgw_type = JOB_TYPE_CONTINUOUS_AGGREGATE -> "false"
      [] OTHER -> "error"

\* As Route, but the reorder case falls through to the drop_chunks case
Route_fallthrough(bgw_type) ==
    CASE bgw_type = JOB_TYPE_REORDER -> "drop_enter"
      [] bgw_type = JOB_TYPE_DROP_CHUNKS -> "drop_enter"
      [] bgw_type = JOB_TYPE_CONTINUOUS_AGGREGATE -> "materialize_enter"
      [] OTHER -> "error"

\* lines 272-285: the executor a job type is routed to, "error" for the default case
Route(bgw_type) ==
    CASE bgw_type = JOB_TYPE_REORDER -> "reorder_enter"
      [] bgw_type = JOB_TYPE_DROP_CHUNKS -> "drop_enter"
      [] bgw_type = JOB_TYPE_CONTINUOUS_AGGREGATE -> "materialize_enter"
      [] OTHER -> "error"

\* lines 265-286: tsl_bgw_policy_job_execute up to the call of the executor
Execute(w, j, in_xact) ==
    /\ pc[w] = "idle"
    /\ frame' = [frame EXCEPT ![w] = [NoFrame EXCEPT !.entry = "execute", !.job = j,
                                                     !.fast_continue = TRUE]]
    /\ entry' = [entry EXCEPT ![w] = Observed(w, j, in_xact)]
    /\ ev' = [ev EXCEPT ![w] = <<>>]
    /\ LET bgw_type == bgw_job[j].bgw_type
           requires == bgw_policy_job_requires_enterprise_license(bgw_type)
       IN  IF requires = "error"
           THEN Raise(w, ERRCODE_INTERNAL_ERROR)
           ELSE IF requires = "true" /\ ~license_enterprise_enabled
           THEN Raise(w, ERR_LICENSE)
           ELSE IF Route(bgw_type) = "error"
           THEN Raise(w, ERRCODE_INTERNAL_ERROR)
           ELSE /\ pc' = [pc EXCEPT ![w] = Route(bgw_type)]
                /\ tx' = [tx EXCEPT ![w] = [NoTx EXCEPT !.open = in_xact]]
                /\ result' = [result EXCEPT ![w] = "none"]
                /\ UNCHANGED <<chunk_stats, job_stat, chunks>>
    /\ UNCHANGED <<license, bgw_job, reorder_args, drop_args, cagg_job, hypertable,
                   next_chunk_id, reorder_calls, faults, backends, alter_ret>>

\* ------------------------------------------------------------ the callers
Reset(w) ==
    /\ pc' = [pc EXCEPT ![w] = "idle"]
    /\ frame' = [frame EXCEPT ![w] = NoFrame]
    /\ ev' = [ev EXCEPT ![w] = <<>>]
    /\ result' = [result EXCEPT ![w] = "none"]
    /\ entry' = [entry EXCEPT ![w] = NoEntry]

\* When the caller has taken the outcome, the scheduler, marking the next
\* start of the job (ts_bgw_job_stat_mark_start), unsets next_start.
\* The invocation has returned or failed and no transaction is open
Return(w) ==
    /\ pc[w] = "done"
    /\ ~tx[w].open
    /\ Reset(w)
    /\ job_stat' = [job_stat EXCEPT ![frame[w].job].next_start = DT_NOBEGIN]
    /\ UNCHANGED <<catalog, chunk_stats, reorder_calls, faults, backends, tx, alter_ret>>

\* The caller commits the transaction that is open after the return
CallerCommit(w) ==
    /\ pc[w] = "done"
    /\ tx[w].open
    /\ Reset(w)
    /\ chunk_stats' = CommittedStats(tx[w])
    /\ chunks' = CommittedChunks(tx[w])
    /\ job_stat' = [job_stat EXCEPT ![frame[w].job].next_start = DT_NOBEGIN]
    /\ tx' = [tx EXCEPT ![w] = NoTx]
    /\ UNCHANGED <<license, bgw_job, reorder_args, drop_args, cagg_job, hypertable,
                   next_chunk_id, reorder_calls, faults, backends, alter_ret>>

\* The caller rolls back the transaction that is open after the return
CallerRollback(w) ==
    /\ pc[w] = "done"
    /\ tx[w].open
    /\ faults < MaxFaults
    /\ faults' = faults + 1
    /\ Reset(w)
    /\ tx' = [tx EXCEPT ![w] = NoTx]
    /\ job_stat' = [job_stat EXCEPT ![frame[w].job].next_start = DT_NOBEGIN]
    /\ reorder_calls' = [p \in DOMAIN reorder_calls |->
                           IF p \in tx[w].stats
                           THEN [reorder_calls[p] EXCEPT !.lost = @ + 1]
                           ELSE reorder_calls[p]]
    /\ UNCHANGED <<catalog, chunk_stats, backends, alter_ret>>

\* ------------------------------------------------------- the environment
SetLicense ==
    /\ faults < MaxFaults
    /\ faults' = faults + 1
    /\ license' = ~license
    /\ UNCHANGED <<bgw_job, job_stat, reorder_args, drop_args, cagg_job, hypertable,
                   chunks, next_chunk_id, chunk_stats, reorder_calls, backends,
                   pc, frame, tx, ev, result, entry, alter_ret>>

\* An insert creates a new slice of the open dimension and its chunk
AddChunk(range_start) ==
    /\ hypertable
    /\ next_chunk_id <= MaxChunks
    /\ \A c \in DOMAIN chunks : chunks[c] # range_start
    /\ chunks' = chunks @@ (next_chunk_id :> range_start)
    /\ next_chunk_id' = next_chunk_id + 1
    /\ UNCHANGED <<license, bgw_job, job_stat, reorder_args, drop_args, cagg_job,
                   hypertable, chunk_stats, reorder_calls, faults, backends,
                   pc, frame, tx, ev, result, entry, alter_ret>>

\* The table is dropped, or is no longer a hypertable
DropHypertable ==
    /\ hypertable
    /\ faults < MaxFaults
    /\ faults' = faults + 1
    /\ hypertable' = FALSE
    /\ chunks' = <<>>
    /\ UNCHANGED <<license, bgw_job, job_stat, reorder_args, drop_args, cagg_job,
                   next_chunk_id, chunk_stats, reorder_calls, backends,
                   pc, frame, tx, ev, result, entry, alter_ret>>

\* The policy row of a job is removed from its policy table
RemovePolicyArgs(j) ==
    /\ reorder_args[j] # NULL \/ drop_args[j] # NULL \/ cagg_job[j] >= 0
    /\ faults < MaxFaults
    /\ faults' = faults + 1
    /\ reorder_args' = [reorder_args EXCEPT ![j] = NULL]
    /\ drop_args' = [drop_args EXCEPT ![j] = NULL]
    /\ cagg_job' = [cagg_job EXCEPT ![j] = -1]
    /\ UNCHANGED <<license, bgw_job, job_stat, hypertable, chunks, next_chunk_id,
                   chunk_stats, reorder_calls, backends,
                   pc, frame, tx, ev, result, entry, alter_ret>>

\* -------------------------------------------------- schedule mutation API
\* lines 323-330: only the arguments that are not NULL are assigned
alter_fields_overwrite(job, interval, max_runtime, max_retries, retry_period) ==
    [job EXCEPT !.schedule_interval = interval,
                !.max_runtime = max_runtime,
                !.max_retries = max_retries,
                !.retry_period = retry_period]

alter_fields(job, interval, max_runtime, max_retries, retry_period) ==
    [job EXCEPT !.schedule_interval = IF interval # NULL THEN interval ELSE @,
                !.max_runtime = IF max_runtime # NULL THEN max_runtime ELSE @,
                !.max_retries = IF max_retries # NULL THEN max_retries ELSE @,
                !.retry_period = IF retry_period # NULL THEN retry_period ELSE @]

\* lines 341-349: the returned tuple
alter_tuple(job_id, job) ==
    <<job_id, job.schedule_interval, job.max_runtime, job.max_retries, job.retry_period>>

\* As bgw_policy_alter_job_schedule, but a missing job is always an error
alter_job_schedule_strict(job_id, interval, max_runtime, max_retries, retry_period, if_exists, owner, composite) ==
    /\ alter_ret.calls < MaxAlters
    /\ LET ret(outcome, row, reached) ==
               [calls |-> alter_ret.calls + 1, outcome |-> outcome, job_id |-> job_id,
                row |-> row, reached |-> reached]
       IN  IF ~license_enterprise_enabled
           THEN /\ alter_ret' = ret(ERR_LICENSE, <<>>, <<"enforce">>)
                /\ UNCHANGED bgw_job
           ELSE IF job_id \notin DOMAIN bgw_job
           THEN /\ alter_ret' = ret(ERRCODE_UNDEFINED_OBJECT, <<>>, <<"enforce", "find">>)
                /\ UNCHANGED bgw_job
           ELSE IF ~owner
           THEN /\ alter_ret' = ret(ERRCODE_INSUFFICIENT_PRIVILEGE, <<>>,
                                    <<"enforce", "find", "permission_check">>)
                /\ UNCHANGED bgw_job
           ELSE LET job == alter_fields(bgw_job[job_id], interval, max_runtime,
                                        max_retries, retry_period)
                    reached == <<"enforce", "find", "permission_check", "update">>
                IN  IF ~composite
                    THEN /\ alter_ret' = ret(ERRCODE_FEATURE_NOT_SUPPORTED, <<>>, reached)
                         /\ UNCHANGED bgw_job
                    ELSE /\ bgw_job' = [bgw_job EXCEPT ![job_id] = job]
                         /\ alter_ret' = ret("tuple", alter_tuple(job_id, job), reached)
    /\ UNCHANGED <<license, job_stat, reorder_args, drop_args, cagg_job, hypertable,
                   chunks, next_chunk_id, chunk_stats, reorder_calls, faults, backends,
                   pc, frame, tx, ev, result, entry>>

\* As bgw_policy_alter_job_schedule, but with the license enforced as the
\* dispatcher does, for the job types that require it
alter_job_schedule_gated_by_type(job_id, interval, max_runtime, max_retries, retry_period, if_exists, owner, composite) ==
    /\ alter_ret.calls < MaxAlters
    /\ LET ret(outcome, row, reached) ==
               [calls |-> alter_ret.calls + 1, outcome |-> outcome, job_id |-> job_id,
                row |-> row, reached |-> reached]
       IN  IF /\ ~license_enterprise_enabled
              /\ job_id \in DOMAIN bgw_job
              /\ bgw_policy_job_requires_enterprise_license(bgw_job[job_id].bgw_type) = "true"
           THEN /\ alter_ret' = ret(ERR_LICENSE, <<>>, <<"enforce">>)
                /\ UNCHANGED bgw_job
           ELSE IF job_id \notin DOMAIN bgw_job
           THEN /\ alter_ret' = ret(IF if_exists THEN "null" ELSE ERRCODE_UNDEFINED_OBJECT,
                                    <<>>, <<"enforce", "find">>)
                /\ UNCHANGED bgw_job
           ELSE IF ~owner
           THEN /\ alter_ret' = ret(ERRCODE_INSUFFICIENT_PRIVILEGE, <<>>,
                                    <<"enforce", "find", "permission_check">>)
                /\ UNCHANGED bgw_job
           ELSE LET job == alter_fields(bgw_job[job_id], interval, max_runtime,
                                        max_retries, retry_period)
                    reached == <<"enforce", "find", "permission_check", "update">>
                IN  IF ~composite
                    THEN /\ alter_ret' = ret(ERRCODE_FEATURE_NOT_SUPPORTED, <<>>, reached)
                         /\ UNCHANGED bgw_job
                    ELSE /\ bgw_job' = [bgw_job EXCEPT ![job_id] = job]
                         /\ alter_ret' = ret("tuple", alter_tuple(job_id, job), reached)
    /\ UNCHANGED <<license, job_stat, reorder_args, drop_args, cagg_job, hypertable,
                   chunks, next_chunk_id, chunk_stats, reorder_calls, faults, backends,
                   pc, frame, tx, ev, result, entry>>

\* lines 288-350.  owner: the caller passes ts_bgw_job_permission_check;
\* composite: the call context accepts a record (get_call_result_type).
\* An ERROR aborts the statement, so nothing it wrote persists.
bgw_policy_alter_job_schedule(job_id, interval, max_runtime, max_retries, retry_period, if_exists, owner, composite) ==
    /\ alter_ret.calls < MaxAlters
    /\ LET ret(outcome, row, reached) ==
               [calls |-> alter_ret.calls + 1, outcome |-> outcome, job_id |-> job_id,
                row |-> row, reached |-> reached]
       IN  IF ~license_enterprise_enabled
           THEN /\ alter_ret' = ret(ERR_LICENSE, <<>>, <<"enforce">>)
                /\ UNCHANGED bgw_job
           ELSE IF job_id \notin DOMAIN bgw_job
           THEN /\ alter_ret' = ret(IF if_exists THEN "null" ELSE ERRCODE_UNDEFINED_OBJECT,
                                    <<>>, <<"enforce", "find">>)
                /\ UNCHANGED bgw_job
           ELSE IF ~owner
           THEN /\ alter_ret' = ret(ERRCODE_INSUFFICIENT_PRIVILEGE, <<>>,
                                    <<"enforce", "find", "permission_check">>)
                /\ UNCHANGED bgw_job
           ELSE LET job == alter_fields(bgw_job[job_id], interval, max_runtime,
                                        max_retries, retry_period)
                    reached == <<"enforce", "find", "permission_check", "update">>
                IN  IF ~composite
                    THEN /\ alter_ret' = ret(ERRCODE_FEATURE_NOT_SUPPORTED, <<>>, reached)
                         /\ UNCHANGED bgw_job
                    ELSE /\ bgw_job' = [bgw_job EXCEPT ![job_id] = job]
                         /\ alter_ret' = ret("tuple", alter_tuple(job_id, job), reached)
    /\ UNCHANGED <<license, job_stat, reorder_args, drop_args, cagg_job, hypertable,
                   chunks, next_chunk_id, chunk_stats, reorder_calls, faults, backends,
                   pc, frame, tx, ev, result, entry>>

\* ---------------------------------------------------------- specification
Init ==
    /\ license = TRUE
    /\ bgw_job = [j \in JobIds |->
                    [bgw_type |-> InitJobType[j], schedule_interval |-> 1,
                     max_runtime |-> 2, max_retries |-> 1, retry_period |-> 2]]
    /\ job_stat = [j \in JobIds |-> [last_start |-> j, next_start |-> DT_NOBEGIN]]
    /\ reorder_args = [j \in JobIds |->
                         IF InitJobType[j] = JOB_TYPE_REORDER THEN 1 ELSE NULL]
    /\ drop_args = [j \in JobIds |->
                      IF InitJobType[j] = JOB_TYPE_DROP_CHUNKS THEN 1 ELSE NULL]
    /\ cagg_job = [j \in JobIds |->
                     IF InitJobType[j] = JOB_TYPE_CONTINUOUS_AGGREGATE THEN 1 ELSE -1]
    /\ hypertable = TRUE
    /\ chunks = (1 :> 3) @@ (2 :> 2) @@ (3 :> 4) @@ (4 :> 5)
    /\ next_chunk_id = 5
    /\ chunk_stats = {}
    /\ reorder_calls = [p \in JobIds \X ChunkIds |-> [calls |-> 0, lost |-> 0]]
    /\ faults = 0
    /\ backends = {"w1"}
    /\ pc = [w \in Workers |-> "idle"]
    /\ frame = [w \in Workers |-> NoFrame]
    /\ tx = [w \in Workers |-> NoTx]
    /\ ev = [w \in Workers |-> <<>>]
    /\ result = [w \in Workers |-> "none"]
    /\ entry = [w \in Workers |-> NoEntry]
    /\ alter_ret = NoRet

Next ==
    \/ \E w \in backends, j \in JobIds, in_xact \in BOOLEAN : Execute(w, j, in_xact)
    \/ \E w \in backends, j \in JobIds, fc \in BOOLEAN, in_xact \in BOOLEAN :
            CallReorder(w, j, fc, in_xact)
    \/ \E w \in backends, j \in JobIds, in_xact \in BOOLEAN : CallDropChunks(w, j, in_xact)
    \/ \E w \in backends : ReorderEnter(w)
    \/ \E w \in backends : ReorderSelect(w)
    \/ \E w \in backends : ReorderCall(w)
    \/ \E w \in backends : ReorderRecord(w)
    \/ \E w \in backends : ReorderFast(w)
    \/ \E w \in backends : ReorderCommit(w)
    \/ \E w \in backends : DropEnter(w)
    \/ \E w \in backends : DropChunks(w)
    \/ \E w \in backends : DropCommit(w)
    \/ \E w \in backends : MaterializeEnter(w)
    \/ \E w \in backends : MaterializeFind(w)
    \/ \E w \in backends : MaterializeEngine(w)
    \/ \E w \in backends : MaterializeRestart(w)
    \/ \E w \in backends : MaterializeExit(w)
    \/ \E w \in backends : Return(w)
    \/ \E w \in backends : CallerCommit(w)
    \/ \E w \in backends : CallerRollback(w)
    \/ SetLicense
    \/ \E range_start \in RangeStarts : AddChunk(range_start)
    \/ DropHypertable
    \/ \E j \in JobIds : RemovePolicyArgs(j)

Spec == Init /\ [][Next]_vars

\* The schedule mutation API alone, under a license that may change
ArgVals == FieldVals \cup {NULL}

NextAlter ==
    \/ \E job_id \in AlterJobIds, interval \in ArgVals, max_runtime \in ArgVals,
          max_retries \in ArgVals, retry_period \in ArgVals,
          if_exists \in BOOLEAN, owner \in BOOLEAN, composite \in BOOLEAN :
            bgw_policy_alter_job_schedule(job_id, interval, max_runtime, max_retries,
                                          retry_period, if_exists, owner, composite)
    \/ SetLicense

SpecAlter == Init /\ [][NextAlter]_vars

\* A backlog drain: the scheduler runs the reorder job 1 standalone, and runs
\* it again at once for as long as the run asked for a fast restart.  The
\* table and the rows the job has already written are any of the bounded
\* ones that leave the job something to do; nothing fails and no slice is
\* added.
Tables ==
    UNION {{t \in [1 .. n -> RangeStarts] : \A a, b \in 1 .. n : a # b => t[a] # t[b]} :
              n \in 4 .. MaxChunks}

Reorderable(t) ==
    {c \in DOMAIN t : Cardinality({d \in DOMAIN t : t[d] > t[c]})
                          >= REORDER_SKIP_RECENT_DIM_SLICES_N}

InitDrain ==
    /\ license = TRUE
    /\ bgw_job = [j \in JobIds |->
                    [bgw_type |-> InitJobType[j], schedule_interval |-> 1,
                     max_runtime |-> 2, max_retries |-> 1, retry_period |-> 2]]
    /\ job_stat = [j \in JobIds |-> [last_start |-> j, next_start |-> DT_NOBEGIN]]
    /\ reorder_args = [j \in JobIds |->
                         IF InitJobType[j] = JOB_TYPE_REORDER THEN 1 ELSE NULL]
    /\ drop_args = [j \in JobIds |->
                      IF InitJobType[j] = JOB_TYPE_DROP_CHUNKS THEN 1 ELSE NULL]
    /\ cagg_job = [j \in JobIds |->
                     IF InitJobType[j] = JOB_TYPE_CONTINUOUS_AGGREGATE THEN 1 ELSE -1]
    /\ hypertable = TRUE
    /\ chunks \in Tables
    /\ next_chunk_id = Cardinality(DOMAIN chunks) + 1
    /\ \E recorded \in SUBSET Reorderable(chunks) :
          /\ recorded # Reorderable(chunks)
          /\ chunk_stats = {<<1, c>> : c \in recorded}
    /\ reorder_calls = [p \in JobIds \X ChunkIds |-> [calls |-> 0, lost |-> 0]]
    /\ faults = MaxFaults
    /\ backends = {"w1"}
    /\ pc = [w \in Workers |-> "idle"]
    /\ frame = [w \in Workers |-> NoFrame]
    /\ tx = [w \in Workers |-> NoTx]
    /\ ev = [w \in Workers |-> <<>>]
    /\ result = [w \in Workers |-> "none"]
    /\ entry = [w \in Workers |-> NoEntry]
    /\ alter_ret = NoRet

\* The scheduler finds next_start = last_start and starts the job again
Restart(w) ==
    /\ pc[w] = "done" /\ result[w] = "true"
    /\ job_stat[frame[w].job].next_start = job_stat[frame[w].job].last_start
    /\ Return(w)

NextDrain ==
    \/ \E w \in backends : Execute(w, 1, FALSE)
    \/ \E w \in backends : ReorderEnter(w)
    \/ \E w \in backends : ReorderSelect(w)
    \/ \E w \in backends : ReorderCall(w)
    \/ \E w \in backends : ReorderRecord(w)
    \/ \E w \in backends : ReorderFast(w)
    \/ \E w \in backends : ReorderCommit(w)
    \/ \E w \in backends : Restart(w)

SpecDrain == InitDrain /\ [][NextDrain]_vars /\ WF_vars(NextDrain)

\* The executors and their callers without the faults of the environment,
\* and one call of the schedule mutation API, made between two runs, that
\* supplies max_retries and retry_period or leaves them unset
NextRecords ==
    \/ \E w \in backends, j \in JobIds, in_xact \in BOOLEAN : Execute(w, j, in_xact)
    \/ \E w \in backends, j \in JobIds, fc \in BOOLEAN, in_xact \in BOOLEAN :
            CallReorder(w, j, fc, in_xact)
    \/ \E w \in backends, j \in JobIds, in_xact \in BOOLEAN : CallDropChunks(w, j, in_xact)
    \/ \E w \in backends : ReorderEnter(w)
    \/ \E w \in backends : ReorderSelect(w)
    \/ \E w \in backends : ReorderCall(w)
    \/ \E w \in backends : ReorderRecord(w)
    \/ \E w \in backends : ReorderFast(w)
    \/ \E w \in backends : ReorderCommit(w)
    \/ \E w \in backends : DropEnter(w)
    \/ \E w \in backends : DropChunks(w)
    \/ \E w \in backends : DropCommit(w)
    \/ \E w \in backends : MaterializeEnter(w)
    \/ \E w \in backends : MaterializeFind(w)
    \/ \E w \in backends : MaterializeEngine(w)
    \/ \E w \in backends : MaterializeRestart(w)
    \/ \E w \in backends : MaterializeExit(w)
    \/ \E w \in backends : Return(w)
    \/ \E w \in backends : CallerCommit(w)
    \/ \E w \in backends : CallerRollback(w)
    \/ \E job_id \in AlterJobIds, max_retries \in ArgVals, retry_period \in ArgVals,
          if_exists \in BOOLEAN, owner \in BOOLEAN, composite \in BOOLEAN :
            /\ alter_ret.calls = 0
            /\ \A w \in backends : pc[w] = "idle"
            /\ bgw_policy_alter_job_schedule(job_id, NULL, NULL, max_retries,
                                             retry_period, if_exists, owner, composite)

SpecRecords == Init /\ [][NextRecords]_vars

\* Two reorder jobs, 1 and 2, on the same table, run by two workers; the
\* scheduler never runs one job in two workers at a time.  The reorder
\* primitive may fail.
InitTwo ==
    /\ license = TRUE
    /\ bgw_job = [j \in JobIds |->
                    [bgw_type |-> IF j = 2 THEN JOB_TYPE_REORDER ELSE InitJobType[j],
                     schedule_interval |-> 1,
                     max_runtime |-> 2, max_retries |-> 1, retry_period |-> 2]]
    /\ job_stat = [j \in JobIds |-> [last_start |-> j, next_start |-> DT_NOBEGIN]]
    /\ reorder_args = [j \in JobIds |-> IF j \in {1, 2} THEN 1 ELSE NULL]
    /\ drop_args = [j \in JobIds |-> NULL]
    /\ cagg_job = [j \in JobIds |->
                     IF InitJobType[j] = JOB_TYPE_CONTINUOUS_AGGREGATE THEN 1 ELSE -1]
    /\ hypertable = TRUE
    /\ chunks = [c \in 1 .. MaxChunks |-> MaxChunks + 1 - c]
    /\ next_chunk_id = MaxChunks + 1
    /\ chunk_stats = {}
    /\ reorder_calls = [p \in JobIds \X ChunkIds |-> [calls |-> 0, lost |-> 0]]
    /\ faults = 0
    /\ backends = Workers
    /\ pc = [w \in Workers |-> "idle"]
    /\ frame = [w \in Workers |-> NoFrame]
    /\ tx = [w \in Workers |-> NoTx]
    /\ ev = [w \in Workers |-> <<>>]
    /\ result = [w \in Workers |-> "none"]
    /\ entry = [w \in Workers |-> NoEntry]
    /\ alter_ret = NoRet

NextTwo ==
    \/ \E w \in backends, j \in {1, 2} :
          /\ \A v \in backends \ {w} : pc[v] = "idle" \/ frame[v].job # j
          /\ Execute(w, j, FALSE)
    \/ \E w \in backends : ReorderEnter(w)
    \/ \E w \in backends : ReorderSelect(w)
    \/ \E w \in backends : ReorderCall(w)
    \/ \E w \in backends : ReorderRecord(w)
    \/ \E w \in backends : ReorderFast(w)
    \/ \E w \in backends : ReorderCommit(w)
    \/ \E w \in backends : Return(w)

SpecTwo == InitTwo /\ [][NextTwo]_vars

\* -------------------------------------------------------------- properties
IsTxEvent(e) == e \in {"start", "commit"}
TxEvents(w) == SelectSeq(ev[w], IsTxEvent)
Has(w, e) == \E i \in 1 .. Len(ev[w]) : ev[w][i] = e
Last(q) == q[Len(q)]

\* The executor an invocation runs
Executor(w) ==
    IF frame[w].entry = "execute"
    THEN LET t == bgw_job[frame[w].job].bgw_type
         IN  CASE t = JOB_TYPE_REORDER -> "reorder"
               [] t = JOB_TYPE_DROP_CHUNKS -> "drop_chunks"
               [] t = JOB_TYPE_CONTINUOUS_AGGREGATE -> "materialize"
               [] OTHER -> "none"
    ELSE frame[w].entry

Returned(w) == pc[w] = "done" /\ result[w] = "true"

\* next_start of job j as backend w sees it
NextStartSeen(w, j) ==
    IF \E p \in tx[w].next : p[1] = j
    THEN (CHOOSE p \in tx[w].next : p[1] = j)[2]
    ELSE job_stat[j].next_start

\* C1: a job dispatched through tsl_bgw_policy_job_execute whose type is
\* reorder or drop_chunks, with the enterprise license inactive, fails with
\* the license error before any side effect: no transaction is started, no
\* primitive is called, no chunk_stats row and no next_start is written.  A
\* continuous aggregate job is routed to its executor whatever the license.
C1_LicenseGate ==
    [][\A w \in Workers :
          (pc[w] = "idle" /\ frame'[w].entry = "execute") =>
              LET t == bgw_job[frame'[w].job].bgw_type
              IN  /\ (t \in {JOB_TYPE_REORDER, JOB_TYPE_DROP_CHUNKS} /\ ~license) =>
                        /\ pc'[w] = "done"
                        /\ result'[w] = ERR_LICENSE
                        /\ ev'[w] = <<>>
                        /\ tx'[w] = NoTx
                        /\ UNCHANGED <<chunk_stats, job_stat, chunks, reorder_calls>>
                  /\ (t = JOB_TYPE_CONTINUOUS_AGGREGATE) => pc'[w] = "materialize_enter"]_vars

C1_Witness ==
    \E w \in Workers :
        /\ pc[w] = "done" /\ result[w] = ERR_LICENSE
        /\ frame[w].entry = "execute"
        /\ bgw_job[frame[w].job].bgw_type = JOB_TYPE_DROP_CHUNKS
        /\ ~license

\* C2 as stated: each of the three executors, called inside an open
\* transaction, neither starts nor commits a transaction and returns inside
\* the caller's transaction; called outside any, it starts one and commits
\* it at its end.
C2_Original ==
    \A w \in Workers :
        Returned(w) /\ Executor(w) \in {"reorder", "drop_chunks", "materialize"} =>
            IF entry[w].open
            THEN TxEvents(w) = <<>> /\ tx[w].open
            ELSE ev[w][1] = "start" /\ Last(ev[w]) = "commit" /\ ~tx[w].open

\* C2 as amended: the reorder and drop_chunks executors, called inside an
\* open transaction, neither start nor commit a transaction; the materialize
\* executor commits the caller's transaction before the engine call and
\* starts a new one after it, which is open at the return.  Called outside
\* any transaction, reorder and drop_chunks start one and commit it at their
\* end; materialize starts one, commits it before the engine call, starts a
\* second one after it and commits that at its end.
C2_TransactionOwnership ==
    \A w \in Workers :
        pc[w] # "idle" =>
            LET x == Executor(w)
            IN  /\ (entry[w].open /\ x \in {"reorder", "drop_chunks"}) =>
                      /\ TxEvents(w) = <<>>
                      /\ result[w] \in {"none", "true"} => tx[w].open
                /\ (entry[w].open /\ x = "materialize" /\ Returned(w)) =>
                      /\ TxEvents(w) = <<"commit", "start">>
                      /\ tx[w].open
                /\ (~entry[w].open /\ x \in {"reorder", "drop_chunks"} /\ Returned(w)) =>
                      /\ TxEvents(w) = <<"start", "commit">>
                      /\ ev[w][1] = "start" /\ Last(ev[w]) = "commit"
                      /\ ~tx[w].open
                /\ (~entry[w].open /\ x = "materialize" /\ Returned(w)) =>
                      /\ TxEvents(w) = <<"start", "commit", "start", "commit">>
                      /\ ev[w][1] = "start" /\ Last(ev[w]) = "commit"
                      /\ ~tx[w].open

C2_Witness ==
    \E w \in Workers :
        /\ Returned(w) /\ entry[w].open /\ Executor(w) = "materialize"
        /\ TxEvents(w) = <<"commit", "start">>

\* C3: in every materialize run that reaches the engine call, the current
\* transaction is committed, then the engine is called with no transaction
\* open, then a new transaction is started, and only then is next_start
\* written or the executor's own commit done; called inside a transaction or
\* outside any.
C3_MaterializeOrder ==
    \A w \in Workers :
        (pc[w] # "idle" /\ Executor(w) = "materialize") =>
            /\ pc[w] = "materialize_engine" => ~tx[w].open /\ Last(ev[w]) = "commit"
            /\ ~Has(w, "materialize_in_xact")
            /\ \A i \in 1 .. Len(ev[w]) :
                  ev[w][i] = "materialize" =>
                      /\ i > 1 /\ ev[w][i - 1] = "commit"
                      /\ i < Len(ev[w]) => ev[w][i + 1] = "start"
                      /\ \A k \in 1 .. Len(ev[w]) :
                            (ev[w][k] = "set_next" \/ (ev[w][k] = "commit" /\ k > i)) => k > i + 1
            /\ Returned(w) =>
                  ev[w] \in (IF entry[w].open
                             THEN {<<"commit", "materialize", "start">>,
                                   <<"commit", "materialize", "start", "set_next">>}
                             ELSE {<<"start", "commit", "materialize", "start", "commit">>,
                                   <<"start", "commit", "materialize", "start", "set_next",
                                     "commit">>})

C3_Witness ==
    \E w \in Workers :
        /\ Returned(w) /\ entry[w].open
        /\ ev[w] = <<"commit", "materialize", "start", "set_next">>

Recorded(p) == p \in chunk_stats \/ \E w \in Workers : p \in tx[w].stats
InFlight(p) ==
    \E w \in Workers : pc[w] = "reorder_record" /\ <<frame[w].job, frame[w].chunk_id>> = p

\* C4 as stated: the heuristic for job J never returns a chunk that has a
\* chunk_stats row for J, and the reorder primitive is called on a chunk at
\* most once per job.
C4_Original ==
    /\ \A w \in Workers, j \in JobIds :
          <<j, get_chunk_id_to_reorder(j, ChunksOf(w), VisStats(w))>> \notin VisStats(w)
    /\ \A p \in DOMAIN reorder_calls : reorder_calls[p].calls <= 1

\* C4 as amended: the heuristic for job J never returns a chunk that has a
\* chunk_stats row for J, the reorder primitive is never called on such a
\* chunk, and every call of the primitive that returned in a run that was
\* not rolled back has its row, so that the calls on a chunk per job are at
\* most one more than the calls whose run failed or was rolled back.
C4_NoReselect ==
    /\ \A w \in Workers, j \in JobIds :
          <<j, get_chunk_id_to_reorder(j, ChunksOf(w), VisStats(w))>> \notin VisStats(w)
    /\ \A w \in Workers :
          pc[w] = "reorder_call" => <<frame[w].job, frame[w].chunk_id>> \notin VisStats(w)
    /\ \A p \in DOMAIN reorder_calls :
          /\ reorder_calls[p].calls - reorder_calls[p].lost
                = IF Recorded(p) \/ InFlight(p) THEN 1 ELSE 0
          /\ reorder_calls[p].calls <= 1 + reorder_calls[p].lost

\* A chunk of job J failed once, was reorganized and recorded by a retry,
\* and a later run of J on the table, where the chunk still lies below the
\* threshold, selects nothing
C4_Witness ==
    \E w \in Workers, p \in chunk_stats :
        /\ reorder_calls[p].calls = 2
        /\ p[2] \in DOMAIN chunks
        /\ Cardinality(VisSlices(w)) > REORDER_SKIP_RECENT_DIM_SLICES_N
        /\ Executor(w) = "reorder" /\ frame[w].job = p[1]
        /\ pc[w] = "reorder_commit" /\ frame[w].chunk_id = InvalidChunk

C6_Original ==
    \A w \in Workers :
        (Returned(w) /\ Executor(w) = "reorder") =>
            LET j == frame[w].job
            IN  IF Has(w, "eligible_left")
                THEN Has(w, "set_next") /\ NextStartSeen(w, j) = job_stat[j].last_start
                ELSE ~Has(w, "set_next") /\ NextStartSeen(w, j) = DT_NOBEGIN

\* C6 as amended: the same for a run with fast_continue set, as every
\* dispatched run is; a run with fast_continue unset never writes next_start.
C6_FastRestart ==
    \A w \in Workers :
        (Returned(w) /\ Executor(w) = "reorder") =>
            LET j == frame[w].job
            IN  /\ frame[w].entry = "execute" => frame[w].fast_continue
                /\ IF frame[w].fast_continue /\ Has(w, "eligible_left")
                   THEN /\ Has(w, "reorder") /\ Has(w, "set_next")
                        /\ NextStartSeen(w, j) = job_stat[j].last_start
                        /\ ~entry[w].open => job_stat[j].next_start = job_stat[j].last_start
                   ELSE /\ ~Has(w, "set_next")
                        /\ NextStartSeen(w, j) = DT_NOBEGIN

C6_Witness ==
    \E w \in Workers :
        /\ Returned(w) /\ frame[w].entry = "execute" /\ Executor(w) = "reorder"
        /\ ~entry[w].open
        /\ Has(w, "eligible_left") /\ Has(w, "set_next")
        /\ job_stat[frame[w].job].next_start = job_stat[frame[w].job].last_start

\* C7: a materialize run sets next_start to last_start if and only if the
\* engine reports that not all the work is done, and leaves it as it was
\* otherwise; once the engine has returned the run returns true.
C7_MaterializeFastRestart ==
    \A w \in Workers :
        Executor(w) = "materialize" =>
            LET j == frame[w].job
            IN  /\ Returned(w) =>
                      IF frame[w].finished
                      THEN ~Has(w, "set_next") /\ NextStartSeen(w, j) = DT_NOBEGIN
                      ELSE /\ Has(w, "set_next")
                           /\ NextStartSeen(w, j) = job_stat[j].last_start
                           /\ ~entry[w].open =>
                                 job_stat[j].next_start = job_stat[j].last_start
                /\ (pc[w] = "done" /\ Has(w, "materialize") /\ result[w] # ERR_PRIMITIVE) =>
                      result[w] = "true"

C7_Witness ==
    \E w \in Workers :
        /\ Returned(w) /\ Executor(w) = "materialize" /\ ~entry[w].open
        /\ ~frame[w].finished
        /\ job_stat[frame[w].job].next_start = job_stat[frame[w].job].last_start

\* C8: the drop_chunks executor, run for a job whose policy row exists but
\* whose table is no longer a hypertable, ends with the error
\* ERRCODE_TS_HYPERTABLE_NOT_EXIST, not the internal error of a missing
\* policy row, and the drop primitive is not called: no chunk is removed.
C8_TableGone ==
    [][\A w \in Workers :
          (/\ pc[w] = "drop_chunks" /\ pc'[w] # "drop_chunks"
           /\ drop_args[frame[w].job] # NULL /\ ~hypertable) =>
              /\ pc'[w] = "done"
              /\ result'[w] = ERRCODE_TS_HYPERTABLE_NOT_EXIST
              /\ result'[w] # ERRCODE_TS_INTERNAL_ERROR
              /\ \A i \in 1 .. Len(ev'[w]) : ev'[w][i] # "drop"
              /\ tx'[w].dropped = {}
              /\ chunks' = chunks]_vars

C8_Witness ==
    \E w \in Workers :
        /\ pc[w] = "done" /\ result[w] = ERRCODE_TS_HYPERTABLE_NOT_EXIST
        /\ Executor(w) = "drop_chunks"
        /\ drop_args[frame[w].job] # NULL /\ ~hypertable
        /\ ~Has(w, "drop")

MissingJobIds == AlterJobIds \ DOMAIN bgw_job
InSeq(e, q) == \E i \in 1 .. Len(q) : q[i] = e

\* C9 as stated: bgw_policy_alter_job_schedule on a job id that does not
\* exist returns NULL when if_exists is set and fails with
\* ERRCODE_UNDEFINED_OBJECT otherwise; no job row changes, and neither the
\* permission check nor the update is reached.
C9_Original ==
    [][\A job_id \in MissingJobIds, interval \in ArgVals, max_runtime \in ArgVals,
          max_retries \in ArgVals, retry_period \in ArgVals,
          if_exists \in BOOLEAN, owner \in BOOLEAN, composite \in BOOLEAN :
            bgw_policy_alter_job_schedule(job_id, interval, max_runtime, max_retries,
                                          retry_period, if_exists, owner, composite) =>
                /\ alter_ret'.outcome = IF if_exists THEN "null" ELSE ERRCODE_UNDEFINED_OBJECT
                /\ bgw_job' = bgw_job
                /\ ~InSeq("permission_check", alter_ret'.reached)
                /\ ~InSeq("update", alter_ret'.reached)]_vars

\* C9 as amended: with the enterprise license active,
\* bgw_policy_alter_job_schedule on a job id that does not exist returns NULL
\* when if_exists is set and fails with ERRCODE_UNDEFINED_OBJECT otherwise;
\* with the license inactive it fails with the license error for either
\* value of if_exists.  In all these cases no job row changes and neither
\* the permission check nor the update is reached.
C9_MissingJob ==
    [][\A job_id \in MissingJobIds, interval \in ArgVals, max_runtime \in ArgVals,
          max_retries \in ArgVals, retry_period \in ArgVals,
          if_exists \in BOOLEAN, owner \in BOOLEAN, composite \in BOOLEAN :
            bgw_policy_alter_job_schedule(job_id, interval, max_runtime, max_retries,
                                          retry_period, if_exists, owner, composite) =>
                /\ alter_ret'.outcome =
                      IF ~license THEN ERR_LICENSE
                      ELSE IF if_exists THEN "null" ELSE ERRCODE_UNDEFINED_OBJECT
                /\ bgw_job' = bgw_job
                /\ ~InSeq("permission_check", alter_ret'.reached)
                /\ ~InSeq("update", alter_ret'.reached)]_vars

C9_Witness ==
    /\ alter_ret.calls > 0 /\ alter_ret.job_id \in MissingJobIds
    /\ license /\ alter_ret.outcome = "null"
    /\ alter_ret.reached = <<"enforce", "find">>

Supplied(arg, prior) == IF arg # NULL THEN arg ELSE prior

\* C10: a call of bgw_policy_alter_job_schedule on an existing job that
\* returns a tuple has set, in the bgw_job row of that job, exactly the fields
\* whose argument is not NULL to the argument and kept the others; no other
\* row changes, and the tuple returned is the row as persisted.  A call that
\* does not return a tuple changes no row.
C10_PartialUpdate ==
    [][\A job_id \in JobIds, interval \in ArgVals, max_runtime \in ArgVals,
          max_retries \in ArgVals, retry_period \in ArgVals,
          if_exists \in BOOLEAN, owner \in BOOLEAN, composite \in BOOLEAN :
            bgw_policy_alter_job_schedule(job_id, interval, max_runtime, max_retries,
                                          retry_period, if_exists, owner, composite) =>
                IF alter_ret'.outcome = "tuple"
                THEN /\ license /\ owner /\ composite
                     /\ bgw_job'[job_id] =
                           [bgw_type |-> bgw_job[job_id].bgw_type,
                            schedule_interval |->
                                Supplied(interval, bgw_job[job_id].schedule_interval),
                            max_runtime |-> Supplied(max_runtime, bgw_job[job_id].max_runtime),
                            max_retries |-> Supplied(max_retries, bgw_job[job_id].max_retries),
                            retry_period |->
                                Supplied(retry_period, bgw_job[job_id].retry_period)]
                     /\ \A k \in JobIds \ {job_id} : bgw_job'[k] = bgw_job[k]
                     /\ alter_ret'.row =
                           <<job_id, bgw_job'[job_id].schedule_interval,
                             bgw_job'[job_id].max_runtime, bgw_job'[job_id].max_retries,
                             bgw_job'[job_id].retry_period>>
                ELSE /\ ~(license /\ owner /\ composite)
                     /\ bgw_job' = bgw_job]_vars

\* Only max_retries was supplied and only max_retries differs
C10_Witness ==
    /\ alter_ret.calls > 0 /\ alter_ret.outcome = "tuple"
    /\ alter_ret.job_id \in JobIds
    /\ alter_ret.row = <<alter_ret.job_id, 1, 2, 2, 2>>
    /\ bgw_job[alter_ret.job_id].max_retries = 2
    /\ bgw_job[alter_ret.job_id].schedule_interval = 1


InExecutor(w) == pc[w] \notin {"idle", "done"}
Fails(w) == InExecutor(w) /\ pc'[w] = "done" /\ result'[w] # "true"

\* C11 as stated: an executor invocation that ends in an error has committed
\* no transaction before the error, and no chunk_stats row and no next_start
\* of that invocation is persisted: its transaction is aborted.
C11_Original ==
    [][\A w \in Workers :
          Fails(w) =>
              /\ \A i \in 1 .. Len(ev'[w]) : ev'[w][i] # "commit"
              /\ chunk_stats' = chunk_stats /\ job_stat' = job_stat
              /\ tx'[w] = NoTx]_vars

\* C11 as amended: an invocation of the reorder or the drop_chunks executor
\* that ends in an error has committed no transaction before the error.  An
\* invocation of the materialize executor that ends in an error of the
\* engine has committed once, at line 228 before the engine call, a
\* transaction in which the executor wrote nothing.  In all cases no
\* chunk_stats row and no next_start of the invocation is persisted: no step
\* inside an executor other than its last changes the committed tables, and
\* the failing step aborts the open transaction with its writes.
C11_ErrorsUnwind ==
    [][\A w \in Workers :
          /\ Fails(w) =>
                /\ chunk_stats' = chunk_stats /\ job_stat' = job_stat /\ chunks' = chunks
                /\ tx'[w] = NoTx
                /\ (\E i \in 1 .. Len(ev'[w]) : ev'[w][i] = "commit") =>
                      /\ Executor(w) = "materialize"
                      /\ result'[w] = ERR_PRIMITIVE
                      /\ ev'[w] \in {<<"start", "commit", "materialize">>,
                                     <<"commit", "materialize">>}
          /\ (InExecutor(w) /\ InExecutor(w)') =>
                chunk_stats' = chunk_stats /\ job_stat' = job_stat]_vars

\* The reorder primitive failed in a run that owns its transaction
C11_Witness ==
    \E w \in Workers :
        /\ pc[w] = "done" /\ result[w] = ERR_PRIMITIVE
        /\ Executor(w) = "reorder" /\ frame[w].started
        /\ ev[w] = <<"start", "reorder">>
        /\ ~tx[w].open
        /\ \A c \in ChunkIds : <<frame[w].job, c>> \notin chunk_stats


Requests(w) == Len(ev'[w]) > Len(ev[w]) /\ ev'[w][Len(ev'[w])] = "set_next"

\* C12: enable_fast_restart writes only next_start of the job's job_stat
\* row, and writes the last_start of that row; last_start, the other rows of
\* job_stat, the schedule fields of bgw_job and the chunk_stats rows are as
\* before, when the write is made and when it is committed, and the
\* invocation that made the write returns true.
C12_FastRestartFrame ==
    [][\A w \in Workers :
          LET j == frame[w].job
          IN  /\ Requests(w) =>
                    /\ tx'[w].next = {p \in tx[w].next : p[1] # j}
                                        \cup {<<j, job_stat[j].last_start>>}
                    /\ tx'[w].stats = tx[w].stats /\ tx'[w].dropped = tx[w].dropped
                    /\ job_stat' = job_stat /\ chunk_stats' = chunk_stats
                    /\ bgw_job' = bgw_job /\ chunks' = chunks
                    /\ pc'[w] # "done"
              /\ (Has(w, "set_next") /\ pc[w] # "done" /\ pc'[w] = "done") =>
                    /\ result'[w] = "true"
                    /\ bgw_job' = bgw_job
                    /\ frame[w].started =>
                          /\ job_stat' = [job_stat EXCEPT ![j].next_start =
                                                              job_stat[j].last_start]
                          /\ chunk_stats' = chunk_stats \cup tx[w].stats
                          /\ chunk_stats' \ chunk_stats \subseteq {<<j, frame[w].chunk_id>>}
                    /\ ~frame[w].started =>
                          /\ job_stat' = job_stat /\ chunk_stats' = chunk_stats
                          /\ NextStartSeen(w, j)' = job_stat[j].last_start]_vars

C12_Witness ==
    \E w \in Workers :
        /\ Returned(w) /\ Has(w, "set_next") /\ frame[w].started
        /\ Executor(w) = "materialize"
        /\ job_stat[frame[w].job] = [last_start |-> frame[w].job, next_start |-> frame[w].job]
        /\ \A k \in JobIds \ {frame[w].job} : job_stat[k].next_start = DT_NOBEGIN
        /\ chunk_stats = {}


\* C13: bgw_policy_alter_job_schedule enforces the enterprise license first
\* and for every job: with the license inactive the call fails with the
\* license error for a job of any type, a continuous aggregate job included,
\* and for a missing job, and reaches neither the job lookup, the permission
\* check nor the update.  With the license active and the permission check
\* failing, no field of any bgw_job row changes.
C13_AlterLicenseFirst ==
    [][\A job_id \in AlterJobIds, interval \in ArgVals, max_runtime \in ArgVals,
          max_retries \in ArgVals, retry_period \in ArgVals,
          if_exists \in BOOLEAN, owner \in BOOLEAN, composite \in BOOLEAN :
            bgw_policy_alter_job_schedule(job_id, interval, max_runtime, max_retries,
                                          retry_period, if_exists, owner, composite) =>
                /\ alter_ret'.reached[1] = "enforce"
                /\ ~license =>
                      /\ alter_ret'.outcome = ERR_LICENSE
                      /\ alter_ret'.reached = <<"enforce">>
                      /\ bgw_job' = bgw_job
                /\ (license /\ job_id \in DOMAIN bgw_job /\ ~owner) =>
                      /\ alter_ret'.outcome = ERRCODE_INSUFFICIENT_PRIVILEGE
                      /\ ~InSeq("update", alter_ret'.reached)
                      /\ bgw_job' = bgw_job]_vars

\* The call on the continuous aggregate job with the license inactive
C13_Witness ==
    /\ alter_ret.calls > 0 /\ ~license
    /\ alter_ret.job_id \in JobIds
    /\ bgw_job[alter_ret.job_id].bgw_type = JOB_TYPE_CONTINUOUS_AGGREGATE
    /\ alter_ret.outcome = ERR_LICENSE /\ alter_ret.reached = <<"enforce">>


Newer(S, s) == {t \in S : t > s}
\* The chunks of w's table that job j may reorder: at least 3 slices are
\* newer than the chunk's and the job has no chunk_stats row for it
Eligible(w, j) ==
    {c \in VisChunks(w) : /\ Cardinality(Newer(VisSlices(w), chunks[c])) >= 3
                          /\ <<j, c>> \notin VisStats(w)}

Reordered(j) == {c \in ChunkIds : reorder_calls[<<j, c>>].calls > 0}
\* The chunks reordered so far plus those still to do
Backlog(w, j) ==
    Cardinality(Reordered(j)) + Cardinality(Eligible(w, j))
        - (IF pc[w] = "reorder_record" THEN 1 ELSE 0)

DrainInv ==
    \A w \in backends :
        /\ \A c \in ChunkIds : reorder_calls[<<1, c>>].calls <= 1
        /\ pc[w] = "reorder_call" =>
              \A d \in Reordered(1) : chunks[d] < chunks[frame[w].chunk_id]
        /\ pc[w] \notin {"reorder_record", "reorder_fast", "reorder_commit"} =>
              \A d \in Reordered(1) : <<1, d>> \in chunk_stats
        /\ ~(pc[w] = "reorder_commit" /\ frame[w].chunk_id = InvalidChunk)
        /\ pc[w] = "done" =>
              /\ result[w] = "true"
              /\ Has(w, "set_next") <=> Eligible(w, 1) # {}
              /\ job_stat[1].next_start = job_stat[1].last_start <=> Eligible(w, 1) # {}

Drained ==
    \A w \in backends :
        /\ pc[w] = "done" /\ result[w] = "true"
        /\ Eligible(w, 1) = {}
        /\ job_stat[1].next_start = DT_NOBEGIN
        /\ \A c \in Reorderable(chunks) : <<1, c>> \in chunk_stats

\* C15: a chain of standalone runs of a reorder job, each started only when
\* the previous one asked for a fast restart, on a table with k >= 1 eligible
\* chunks and with no slice added, calls the reorder primitive on the
\* eligible chunks in increasing range_start order, once each; each run sees
\* the committed rows of the runs before it; every run but the last asks
\* for a fast restart and the last does not; every run reorders one chunk,
\* the number of chunks reordered plus those still eligible stays k, and the
\* chain ends with none eligible.
C15_BacklogDrain ==
    /\ []DrainInv
    /\ [][\A w \in backends : Backlog(w, 1)' = Backlog(w, 1)]_vars
    /\ <>[]Drained

\* A chain of two runs has ended
C15_Witness ==
    \E w \in backends :
        /\ pc[w] = "done" /\ ~Has(w, "set_next")
        /\ Cardinality(Reordered(1)) = 2
        /\ Eligible(w, 1) = {}


Count(q, e) == Cardinality({i \in 1 .. Len(q) : q[i] = e})

RecordInv ==
    \A w \in backends :
        /\ Count(ev[w], "record") <= 1
        /\ \A i \in 1 .. Len(ev[w]) :
              ev[w][i] = "record" => (i > 1 /\ ev[w][i - 1] = "reorder")
        /\ Has(w, "record") =>
              /\ Executor(w) = "reorder"
              /\ frame[w].chunk_id # InvalidChunk
              /\ result[w] \in {"none", "true"}
              /\ reorder_calls[<<frame[w].job, frame[w].chunk_id>>].calls > 0
        /\ tx[w].stats # {} =>
              /\ Has(w, "record")
              /\ tx[w].stats = {<<frame[w].job, frame[w].chunk_id>>}
        /\ (pc[w] = "done" /\ result[w] # "true") => tx[w].stats = {}

\* C16: in a run of the reorder executor a chunk_stats row is written only
\* directly after the reorder primitive has returned, for the job of the run
\* and the chunk selected, once; a run that selects no chunk or whose
\* primitive fails writes none.  The rows of chunk_stats change only when a
\* reorder run's transaction commits, by that one row; no run of the
\* drop_chunks or the materialize executor and no call of
\* bgw_policy_alter_job_schedule adds a row.
C16_RecordAfterReorder ==
    /\ []RecordInv
    /\ [][/\ \A w \in backends :
               tx'[w].stats # tx[w].stats =>
                   \/ tx'[w].stats = {}
                   \/ pc[w] = "reorder_record" /\ Last(ev[w]) = "reorder"
          /\ chunk_stats' # chunk_stats =>
               \E w \in backends :
                   /\ Executor(w) = "reorder"
                   /\ Has(w, "record")
                   /\ chunk_stats' = chunk_stats \cup {<<frame[w].job, frame[w].chunk_id>>}
                   /\ pc[w] \in {"reorder_commit", "done"}
          /\ alter_ret' # alter_ret => chunk_stats' = chunk_stats]_vars

\* A row was committed, and a call of the schedule mutation API and a run
\* of the materialize executor have followed
C16_Witness ==
    \E w \in backends :
        /\ chunk_stats = {<<1, 2>>}
        /\ reorder_calls[<<1, 2>>].calls = 2
        /\ alter_ret.outcome = "tuple"
        /\ Executor(w) = "materialize" /\ Returned(w)


Errors ==
    {ERR_LICENSE, ERRCODE_TS_INTERNAL_ERROR, ERRCODE_TS_HYPERTABLE_NOT_EXIST,
     ERRCODE_INTERNAL_ERROR, ERR_PRIMITIVE, SIGSEGV}
\* The reorder run of w found no chunk and has not failed
NoOp(w) ==
    /\ Executor(w) = "reorder" /\ frame[w].chunk_id = InvalidChunk
    /\ pc[w] \in {"reorder_commit", "done"} /\ result[w] \notin Errors

SuccessInv ==
    \A w \in backends :
        /\ pc[w] = "done" => result[w] \in Errors \cup {"true"}
        /\ pc[w] # "done" => result[w] = "none"
        /\ NoOp(w) =>
              /\ ~Has(w, "reorder") /\ ~Has(w, "record") /\ ~Has(w, "set_next")
              /\ tx[w].stats = {} /\ tx[w].next = {}
              /\ \A c \in ChunkIds : reorder_calls[<<frame[w].job, c>>].calls
                                        = reorder_calls[<<frame[w].job, c>>].lost
                                          + (IF <<frame[w].job, c>> \in chunk_stats
                                             THEN 1 ELSE 0)
              /\ pc[w] = "done" =>
                    /\ result[w] = "true"
                    /\ frame[w].started => ev[w] = <<"start", "commit">> /\ ~tx[w].open
                    /\ ~frame[w].started => ev[w] = <<>> /\ tx[w].open
        /\ (Executor(w) = "drop_chunks" /\ pc[w] = "done" /\ Has(w, "drop")
              /\ result[w] # ERR_PRIMITIVE) => result[w] = "true"

\* C17: every return of tsl_bgw_policy_job_execute and of an executor that
\* is not an error is true, never false.  A reorder run for which the
\* heuristic selects no chunk goes to its commit and returns true, having
\* called no primitive and written no chunk_stats row and no next_start,
\* and having committed the transaction it started; a drop_chunks run
\* whose primitive returned returns true, whether or not a chunk was dropped.
C17_NoWorkIsSuccess ==
    /\ []SuccessInv
    /\ [][\A w \in backends :
             /\ (/\ pc[w] = "reorder_select" /\ pc'[w] # "reorder_select"
                 /\ reorder_args[frame[w].job] # NULL /\ hypertable
                 /\ Eligible(w, frame[w].job) = {}) =>
                    pc'[w] = "reorder_commit" /\ frame'[w].chunk_id = InvalidChunk
             /\ (pc[w] \in {"reorder_commit", "drop_commit", "materialize_exit"}
                   /\ pc'[w] # pc[w]) =>
                    pc'[w] = "done" /\ result'[w] = "true"]_vars

\* A standalone reorder run that found no chunk, and left the table as it was
C17_Witness ==
    \E w \in backends :
        /\ NoOp(w) /\ Returned(w) /\ frame[w].started
        /\ frame[w].entry = "execute"
        /\ ev[w] = <<"start", "commit">>
        /\ chunk_stats = {}
        /\ Cardinality(DOMAIN chunks) < 4


Recognized == {JOB_TYPE_REORDER, JOB_TYPE_DROP_CHUNKS, JOB_TYPE_CONTINUOUS_AGGREGATE}
\* The positions and the events of each executor
PcsOf(t) ==
    CASE t = JOB_TYPE_REORDER ->
             {"reorder_enter", "reorder_select", "reorder_call", "reorder_record",
              "reorder_fast", "reorder_commit"}
      [] t = JOB_TYPE_DROP_CHUNKS -> {"drop_enter", "drop_chunks", "drop_commit"}
      [] t = JOB_TYPE_CONTINUOUS_AGGREGATE ->
             {"materialize_enter", "materialize_find", "materialize_engine",
              "materialize_restart", "materialize_exit"}
      [] OTHER -> {}
PrimitivesOf(t) ==
    CASE t = JOB_TYPE_REORDER -> {"reorder"}
      [] t = JOB_TYPE_DROP_CHUNKS -> {"drop"}
      [] t = JOB_TYPE_CONTINUOUS_AGGREGATE -> {"materialize", "materialize_in_xact"}
      [] OTHER -> {}
Primitives == {"reorder", "drop", "materialize", "materialize_in_xact"}

DispatchInv ==
    \A w \in backends :
        frame[w].entry = "execute" =>
            LET t == bgw_job[frame[w].job].bgw_type
            IN  /\ pc[w] \in PcsOf(t) \cup {"done"}
                /\ \A i \in 1 .. Len(ev[w]) :
                      ev[w][i] \in Primitives => ev[w][i] \in PrimitivesOf(t)
                /\ t \notin Recognized =>
                      /\ pc[w] = "done" /\ result[w] = ERRCODE_INTERNAL_ERROR
                      /\ ev[w] = <<>> /\ tx[w] = NoTx

\* C18: tsl_bgw_policy_job_execute on a job whose type is none of reorder,
\* drop_chunks and continuous aggregate ends with an internal error, with
\* the license active or not, and starts no executor, primitive or
\* transaction and writes nothing; on a job of one of these types that
\* passes the license check it enters the executor of that type, and the run
\* stays in that executor and calls no primitive of another.
C18_Dispatch ==
    /\ []DispatchInv
    /\ [][\A w \in backends :
             (pc[w] = "idle" /\ frame'[w].entry = "execute") =>
                 LET t == bgw_job[frame'[w].job].bgw_type
                 IN  /\ t \notin Recognized =>
                           /\ pc'[w] = "done" /\ result'[w] = ERRCODE_INTERNAL_ERROR
                           /\ ev'[w] = <<>> /\ tx'[w] = NoTx
                           /\ chunk_stats' = chunk_stats /\ job_stat' = job_stat
                           /\ chunks' = chunks /\ reorder_calls' = reorder_calls
                     /\ (t \in Recognized /\ pc'[w] # "done") =>
                           /\ pc'[w] \in PcsOf(t)
                           /\ pc'[w] \in {"reorder_enter", "drop_enter", "materialize_enter"}
                     /\ (t \in Recognized /\ pc'[w] = "done") =>
                           /\ result'[w] = ERR_LICENSE /\ ~license
                           /\ t # JOB_TYPE_CONTINUOUS_AGGREGATE]_vars

\* A job of unknown type dispatched with the license inactive
C18_Witness ==
    \E w \in backends :
        /\ frame[w].entry = "execute"
        /\ bgw_job[frame[w].job].bgw_type \notin Recognized
        /\ ~license
        /\ pc[w] = "done" /\ result[w] = ERRCODE_INTERNAL_ERROR /\ ev[w] = <<>>


\* C19: when an executor returns true, a transaction is open if and only if
\* one was open at entry; the executor has committed as often as it has
\* started a transaction, and if it started the first one its last act is
\* the commit, once, on every path, the no-chunk path of reorder included.
\* For drop_chunks the depth of the snapshot stack is as at entry: a
\* snapshot is pushed only directly after the executor has started the
\* transaction and is popped directly before that transaction is committed.
C19_ScopeBalance ==
    \A w \in backends :
        /\ Returned(w) =>
              /\ tx[w].open = entry[w].open
              /\ frame[w].started = ~entry[w].open
              /\ Count(ev[w], "start") = Count(ev[w], "commit")
              /\ frame[w].started =>
                    /\ ev[w][1] = "start" /\ Last(ev[w]) = "commit"
                    /\ Count(ev[w], "commit") =
                          IF Executor(w) = "materialize" THEN 2 ELSE 1
              /\ ~frame[w].started =>
                    Count(ev[w], "commit") = IF Executor(w) = "materialize" THEN 1 ELSE 0
              /\ tx[w].snapshots = entry[w].snapshots
              /\ Count(ev[w], "push") = Count(ev[w], "pop")
              /\ Has(w, "push") <=> (Executor(w) = "drop_chunks" /\ frame[w].started)
        /\ \A i \in 1 .. Len(ev[w]) :
              /\ ev[w][i] = "push" => (i > 1 /\ ev[w][i - 1] = "start")
              /\ ev[w][i] = "pop" => (i < Len(ev[w]) /\ ev[w][i + 1] = "commit")
        /\ tx[w].snapshots = Count(ev[w], "push") - Count(ev[w], "pop")
              \/ (pc[w] = "done" /\ result[w] # "true")

\* A standalone drop_chunks run has returned
C19_Witness ==
    \E w \in backends :
        /\ Returned(w) /\ Executor(w) = "drop_chunks" /\ frame[w].started
        /\ ev[w] = <<"start", "push", "drop", "pop", "commit">>
        /\ ~tx[w].open /\ tx[w].snapshots = 0


ReorderJobs == {j \in JobIds : bgw_job[j].bgw_type = JOB_TYPE_REORDER}
RowsOf(S, j) == {p \in S : p[1] = j}

PerJobInv ==
    /\ \A w \in backends, j \in ReorderJobs :
          LET c == get_chunk_id_to_reorder(j, ChunksOf(w), VisStats(w))
          IN  /\ c = get_chunk_id_to_reorder(j, ChunksOf(w), RowsOf(VisStats(w), j))
              /\ \A j2 \in ReorderJobs \ {j}, d \in Reorderable(chunks) :
                    (<<j2, d>> \in VisStats(w) /\ <<j, d>> \notin VisStats(w)) =>
                        /\ d \in Eligible(w, j)
                        /\ c # InvalidChunk /\ chunks[c] <= chunks[d]
    /\ \A p \in DOMAIN reorder_calls :
          /\ reorder_calls[p].calls - reorder_calls[p].lost <= 1
          /\ p \in chunk_stats => reorder_calls[p].calls - reorder_calls[p].lost = 1
    /\ \A w \in backends :
          /\ tx[w].stats \subseteq {<<frame[w].job, frame[w].chunk_id>>}
          /\ (pc[w] = "done" /\ result[w] = "true" /\ ~Has(w, "eligible_left")) =>
                \A d \in Reorderable(chunks) : <<frame[w].job, d>> \in chunk_stats

\* C20: the heuristic for job J reads only the chunk_stats rows of J: a
\* chunk with a row of another job J2 and none of J is still eligible for
\* J.  With two reorder jobs on one table run by two workers in any
\* interleaving, for each job each chunk is reordered at most once by a
\* call that is not rolled back, and a commit of a run of J adds at most the
\* row of J for the chunk it selected and removes or changes no row: the
\* rows of J2 are as before, and J still gets its own row for every chunk
\* it may reorder.
C20_PerJobHistory ==
    /\ []PerJobInv
    /\ [][/\ chunk_stats \subseteq chunk_stats'
          /\ chunk_stats' # chunk_stats =>
                \E w \in backends :
                    /\ pc[w] = "reorder_commit"
                    /\ chunk_stats' \ chunk_stats = {<<frame[w].job, frame[w].chunk_id>>}
                    /\ \A j2 \in ReorderJobs \ {frame[w].job} :
                          RowsOf(chunk_stats', j2) = RowsOf(chunk_stats, j2)]_vars

\* Both jobs have their row for the same chunk, and job 2 is reordering a
\* chunk for which job 1 has its row
C20_Witness ==
    \E w \in backends, c \in DOMAIN chunks, d \in DOMAIN chunks :
        /\ <<1, c>> \in chunk_stats /\ <<2, c>> \in chunk_stats
        /\ reorder_calls[<<1, c>>].calls = 1 /\ reorder_calls[<<2, c>>].calls = 1
        /\ pc[w] = "reorder_call" /\ frame[w].job = 2 /\ frame[w].chunk_id = d
        /\ <<1, d>> \in chunk_stats /\ <<2, d>> \notin chunk_stats
        /\ \E v \in backends \ {w} : pc[v] \notin {"idle", "done"} /\ frame[v].job = 1

====
